---------------------------- MODULE Spec2Model ----------------------------
(***************************************************************************)
(* Model of server.mjs (DogeAgent Signals): a read-only proxy in front of  *)
(* the dubdub feed API with a short-lived in-memory cache and a response   *)
(* normalizer.  The file holds three snapshots of the server:              *)
(*   variant "A"  lines   1..246  largest-array normalizer, any sortBy     *)
(*   variant "B"  lines 248..486  preferred-key normalizer, any sortBy     *)
(*   variant "C"  lines 488..677  ALLOWED_SORTS, no normalizer             *)
(***************************************************************************)
EXTENDS Integers, Sequences, FiniteSets, TLC

VARIABLES
    variant,    \* which snapshot of the server is running
    now,        \* Date.now(), in milliseconds
    cache,      \* the Map `cache`: key -> entry or NoEntry
    reqs,       \* the HTTP requests received so far, with their fetchFeed calls
    raw,        \* normalizer run: the JSON value handed to normalizeDubDubFeed
    out,        \* normalizer run: what normalizeDubDubFeed returned, once run
    again,      \* normalizer run: what normalizeDubDubFeed returned on `out`
    largest     \* normalizer run: what findLargestObjectArray(raw, 5) returned

vars == <<variant, now, cache, reqs, raw, out, again, largest>>
normVars == <<raw, out, again, largest>>

-----------------------------------------------------------------------------
(* JSON values as a tagged union; objects keep their fields in the order   *)
(* JSON.parse inserted them.                                               *)

JNull == [t |-> "null", v |-> 0]
JUndefined == [t |-> "undefined", v |-> 0]
JBool(b) == [t |-> "bool", v |-> b]
JNum(n) == [t |-> "num", v |-> n]
JStr(s) == [t |-> "str", v |-> s]
JArr(s) == [t |-> "arr", v |-> s]
JObj(kvs) == [t |-> "obj", v |-> kvs]
EmptyArr == JArr(<<>>)

\* An exception thrown by the JavaScript runtime.
Throw(what) == [t |-> "throw", v |-> what]
IsThrow(x) == x.t = "throw"

\* JavaScript truthiness: `!x` holds of null, undefined, false, 0 and "".
Truthy(x) ==
    CASE x.t \in {"null", "undefined"} -> FALSE
      [] x.t = "bool" -> x.v
      [] x.t = "num" -> x.v # 0
      [] x.t = "str" -> x.v # ""
      [] OTHER -> TRUE

\* Array.isArray(x)
IsArray(x) == x.t = "arr"

\* typeof x === "object": true of null, arrays and objects.
TypeofObject(x) == x.t \in {"null", "arr", "obj"}

\* Property names that are array indices; own keys list them first, ascending.
IndexKeys == <<"0", "1">>
IsIndexKey(k) == \E i \in 1..Len(IndexKeys) : IndexKeys[i] = k

RECURSIVE IndexPairs(_, _)
IndexPairs(kvs, i) ==
    IF i > Len(IndexKeys) THEN <<>>
    ELSE SelectSeq(kvs, LAMBDA p : p[1] = IndexKeys[i]) \o IndexPairs(kvs, i + 1)

\* The own enumerable properties of an object in the order JavaScript lists
\* them: integer-like keys ascending, then the other keys in insertion order.
OwnPairs(kvs) ==
    IndexPairs(kvs, 1) \o SelectSeq(kvs, LAMBDA p : ~IsIndexKey(p[1]))

\* Object.values(x), as a sequence; a TypeError on null and undefined.
ObjectValues(x) ==
    CASE x.t \in {"null", "undefined"} -> Throw("TypeError")
      [] x.t = "obj" -> JArr([i \in 1..Len(x.v) |-> OwnPairs(x.v)[i][2]])
      [] x.t = "arr" -> x
      [] OTHER -> EmptyArr

\* x[key] / x.key: a TypeError on null and undefined, undefined when absent.
Get(x, key) ==
    CASE x.t \in {"null", "undefined"} -> Throw("TypeError")
      [] x.t = "obj" ->
            IF \E i \in 1..Len(x.v) : x.v[i][1] = key
            THEN x.v[CHOOSE i \in 1..Len(x.v) : x.v[i][1] = key][2]
            ELSE JUndefined
      [] OTHER -> JUndefined

\* seq.find((v) => Array.isArray(v)): the first array of seq, else undefined.
FindArray(seq) ==
    IF \E i \in 1..Len(seq) : IsArray(seq[i])
    THEN seq[CHOOSE i \in 1..Len(seq) :
                 IsArray(seq[i]) /\ \A j \in 1..(i - 1) : ~IsArray(seq[j])]
    ELSE JUndefined

-----------------------------------------------------------------------------
(* Variant A: findLargestObjectArray and normalizeDubDubFeed               *)

NoBest == JNull

\* Statements run in sequence: below, `CHOOSE res \in {F(y) : y \in {x}} : TRUE`
\* is F(x) with x computed once, before F starts.

RECURSIVE walk(_, _, _, _)
RECURSIVE walkAll(_, _, _, _, _)

\* walk with `node.length >= best.length` on line 78: on a tie the array met
\* last replaces the one met first.
walkLastOnTie(node, depth, maxDepth, best) ==
    IF depth > maxDepth \/ node.t \in {"null", "undefined"} THEN best
    ELSE IF IsArray(node) THEN
        CHOOSE res \in
            {walkAll(node.v, 1, depth + 1, maxDepth, b1) :
                b1 \in {IF Len(node.v) # 0 /\ TypeofObject(node.v[1])
                           /\ (~Truthy(best) \/ Len(node.v) >= Len(best.v))
                        THEN node ELSE best}} : TRUE
    ELSE IF TypeofObject(node) THEN
        CHOOSE res \in
            {IF IsThrow(vals) THEN vals
             ELSE walkAll(vals.v, 1, depth + 1, maxDepth, best) :
                vals \in {ObjectValues(node)}} : TRUE
    ELSE best

\* walk(node, depth) of findLargestObjectArray; `best` is threaded through
\* and the new value of `best` is returned.
walk(node, depth, maxDepth, best) ==
    IF depth > maxDepth \/ node.t \in {"null", "undefined"} THEN best
    ELSE IF IsArray(node) THEN
        CHOOSE res \in
            {walkAll(node.v, 1, depth + 1, maxDepth, b1) :
                b1 \in {IF Len(node.v) # 0 /\ TypeofObject(node.v[1])
                           /\ (~Truthy(best) \/ Len(node.v) > Len(best.v))
                        THEN node ELSE best}} : TRUE
    ELSE IF TypeofObject(node) THEN
        CHOOSE res \in
            {IF IsThrow(vals) THEN vals
             ELSE walkAll(vals.v, 1, depth + 1, maxDepth, best) :
                vals \in {ObjectValues(node)}} : TRUE
    ELSE best

\* node.forEach((child) => walk(child, depth + 1)), from element i on: the
\* walk of child i has returned before the next one begins.
walkAll(seq, i, depth, maxDepth, best) ==
    IF IsThrow(best) \/ i > Len(seq) THEN best
    ELSE CHOOSE res \in
            {walkAll(seq, i + 1, depth, maxDepth, b) :
                b \in {walk(seq[i], depth, maxDepth, best)}} : TRUE

findLargestObjectArray(root, maxDepth) ==
    LET best == walk(root, 0, maxDepth, NoBest)
    IN IF IsThrow(best) THEN best
       ELSE IF Truthy(best) THEN best ELSE EmptyArr

\* normalizeDubDubFeed with a top-level array of objects returned before the
\* search for the largest one.
normalizeShallowFirstA(data) ==
    IF ~Truthy(data) THEN EmptyArr
    ELSE IF IsArray(data) /\ Len(data.v) # 0 /\ TypeofObject(data.v[1]) THEN data
    ELSE IF data.t = "obj"
            /\ \E i \in 1..Len(data.v) :
                  /\ IsArray(data.v[i][2]) /\ Len(data.v[i][2].v) # 0
                  /\ TypeofObject(data.v[i][2].v[1])
    THEN FindArray([i \in 1..Len(data.v) |->
                      IF IsArray(OwnPairs(data.v)[i][2])
                         /\ Len(OwnPairs(data.v)[i][2].v) # 0
                         /\ TypeofObject(OwnPairs(data.v)[i][2].v[1])
                      THEN OwnPairs(data.v)[i][2] ELSE JNull])
    ELSE findLargestObjectArray(data, 5)

normalizeDubDubFeedA(data) ==
    IF ~Truthy(data) THEN EmptyArr
    ELSE IF IsArray(data) /\ Len(data.v) # 0 /\ TypeofObject(data.v[1]) THEN data
    ELSE findLargestObjectArray(data, 5)

-----------------------------------------------------------------------------
(* Variant B: normalizeDubDubFeed with the preferred keys                  *)

candidateKeys == <<"items", "data", "docs", "results", "tokens", "coins">>

\* for (const key of candidateKeys) { if (Array.isArray(data[key])) return }
\* from position i on: the array found, else undefined.
RECURSIVE FirstCandidate(_, _)
FirstCandidate(data, i) ==
    IF i > Len(candidateKeys) THEN JUndefined
    ELSE IF IsArray(Get(data, candidateKeys[i])) THEN Get(data, candidateKeys[i])
    ELSE FirstCandidate(data, i + 1)

\* Lines 334..346: the candidate keys, then the first array among the values.
normalizeTailB(data) ==
    LET c == FirstCandidate(data, 1)
    IN IF IsArray(c) THEN c
       ELSE LET firstArray == FindArray(ObjectValues(data).v)
            IN IF Truthy(firstArray) THEN firstArray ELSE EmptyArr

\* Lines 328..332: feeds is an object; its first array value, else undefined.
feedsObjectArray(data) ==
    LET feeds == Get(data, "feeds")
    IN IF Truthy(feeds) /\ TypeofObject(feeds) /\ ~IsArray(feeds)
       THEN FindArray(ObjectValues(feeds).v)
       ELSE JUndefined

\* Lines 319..346 with the candidate keys tried before the values of an
\* object-valued feeds.
normalizeRestBKeysFirst(data) ==
    IF IsArray(data) THEN data
    ELSE IF ~TypeofObject(data) THEN EmptyArr
    ELSE IF IsThrow(Get(data, "feeds")) THEN Get(data, "feeds")
    ELSE IF IsArray(Get(data, "feeds")) THEN Get(data, "feeds")
    ELSE IF IsArray(FirstCandidate(data, 1)) THEN FirstCandidate(data, 1)
    ELSE IF Truthy(feedsObjectArray(data)) THEN feedsObjectArray(data)
    ELSE normalizeTailB(data)

\* Lines 319..346: normalizeDubDubFeed after its `if (!data)` guard.
normalizeRestB(data) ==
    IF IsArray(data) THEN data
    ELSE IF ~TypeofObject(data) THEN EmptyArr
    ELSE IF IsThrow(Get(data, "feeds")) THEN Get(data, "feeds")
    ELSE IF IsArray(Get(data, "feeds")) THEN Get(data, "feeds")
    ELSE IF Truthy(feedsObjectArray(data)) THEN feedsObjectArray(data)
    ELSE normalizeTailB(data)

\* normalizeDubDubFeed without the `if (!data) return []` of line 318.
normalizeNoGuardB(data) == normalizeRestB(data)

\* normalizeDubDubFeed without the `if (Array.isArray(data)) return data` of
\* line 319.
normalizeNoArrayCheckB(data) ==
    IF ~Truthy(data) THEN EmptyArr
    ELSE IF ~TypeofObject(data) THEN EmptyArr
    ELSE IF IsArray(Get(data, "feeds")) THEN Get(data, "feeds")
    ELSE IF Truthy(feedsObjectArray(data)) THEN feedsObjectArray(data)
    ELSE normalizeTailB(data)

normalizeDubDubFeedB(data) ==
    IF ~Truthy(data) THEN EmptyArr ELSE normalizeRestB(data)

-----------------------------------------------------------------------------
(* Configuration and request inputs                                        *)

DEFAULT_CACHE_TTL_MS == 30000
DefaultLimit == 10

TickMs == 15000     \* how far one step of the clock advances Date.now()
MaxTicks == 2       \* the clock stops after this many steps
MaxReqs == 2        \* HTTP requests received in one run
MaxModes == 2       \* comma-separated segments of a modes parameter
MaxCalls == 4       \* fetchFeed calls started in one run

Variants == {"A", "B", "C"}

\* A query parameter that the request does not carry.
Undefined == "(undefined)"

ALLOWED_SORTS == {"trending", "new", "hot", "volume"}
AllowedSortsList == <<"trending", "new", "hot", "volume">>
DefaultModes == <<"marketCap", "volume24h", "topToday", "mostFollowed", "new">>

SortByInputs == {Undefined, "", "hot", "bogus"}
LimitInputs == {Undefined, "5"}
BatchLimitInputs == {Undefined}
ChainInputs == {Undefined}
ModeSegments == {"", " hot ", "new"}

\* The modes parameter as the sequence of its comma-separated segments (what
\* split(",") yields); the empty string is the single segment "".
ModesInputs ==
    {<<Undefined>>} \cup UNION {[1..n -> ModeSegments] : n \in 1..MaxModes}

\* s.trim()
Trim(s) == IF s = " hot " THEN "hot" ELSE s

\* Number(s) of a limit parameter
NumberOf(s) == IF s = "5" THEN 5 ELSE DefaultLimit

\* req.query.limit ? Number(req.query.limit) : 10
limitOf(q) == IF q = Undefined \/ q = "" THEN DefaultLimit ELSE NumberOf(q)

\* (req.query.chainType || "solana").toString()
chainTypeOf(q) == IF q = Undefined \/ q = "" THEN "solana" ELSE q

\* (req.query.sortBy || <default>).toString(): "marketCap" in variants A and
\* B, "trending" in variant C.
sortByOf(v, q) ==
    IF q = Undefined \/ q = "" THEN (IF v = "C" THEN "trending" ELSE "marketCap")
    ELSE q

\* Lines 195..203: the modes parameter (or the default list when it is absent
\* or empty) split on commas, trimmed, empty names dropped.
sortsOf(m) ==
    IF m = <<Undefined>> \/ m = <<"">> THEN DefaultModes
    ELSE SelectSeq([i \in 1..Len(m) |-> Trim(m[i])], LAMBDA s : s # "")

\* `feed:${sortBy}:${limit}:${chainType}`
cacheKey(sortBy, limit, chainType) ==
    "feed:" \o sortBy \o ":" \o ToString(limit) \o ":" \o chainType

-----------------------------------------------------------------------------
(* Upstream payloads                                                       *)

ObjA1 == JObj(<< <<"a", JNum(1)>> >>)
ObjA2 == JObj(<< <<"a", JNum(2)>> >>)
ObjB2 == JObj(<< <<"b", JNum(2)>> >>)

PayloadList == JArr(<<ObjA1>>)
PayloadEnvelope == JObj(<< <<"feeds", JArr(<<ObjA1, ObjA2>>)>> >>)
PayloadErrField == JObj(<< <<"_error", JStr("rate")>>, <<"items", JArr(<<ObjB2>>)>> >>)

Payloads == {PayloadList, PayloadEnvelope, PayloadErrField}

\* A rejected promise / thrown Error with its message.
Err(msg) == [t |-> "error", v |-> msg]

HttpErrorMessage == "Upstream error 500: "
ParseErrorMessage == "Unexpected token < in JSON"

-----------------------------------------------------------------------------
(* The cache: a Map from key to { ts, ttlMs, data }                        *)

NoEntry == [ts |-> -1, ttlMs |-> 0, data |-> JUndefined]

\* cache.get(key)
cacheGet(c, key) == IF key \in DOMAIN c THEN c[key] ELSE NoEntry

\* cache.set(key, entry)
cacheSet(c, key, entry) ==
    [k \in DOMAIN c \cup {key} |-> IF k = key THEN entry ELSE c[k]]

\* Line 51 with the comparison turned round.
isFreshInverted(cached, t, ttlMs) == cached # NoEntry /\ t - cached.ts > ttlMs

\* Line 51 with <= for <.
isFreshInclusive(cached, t, ttlMs) == cached # NoEntry /\ t - cached.ts <= ttlMs

\* Line 51: cached && now - cached.ts < ttlMs
isFresh(cached, t, ttlMs) == cached # NoEntry /\ t - cached.ts < ttlMs

-----------------------------------------------------------------------------
(* cachedFetch and fetchFeed                                               *)

\* One invocation of fetchFeed -> cachedFetch.  pc is "fetching" while the
\* upstream call is in flight, "ok" once the promise is fulfilled with res,
\* "failed" once it is rejected with res.  t0 is the `now` read on line 49.
\* hit tells whether line 52 returned the cached data; fetches counts the
\* fetch() calls the invocation has made.
Call(sortBy, key, t0, pc, hit, res, fetches) ==
    [sortBy |-> sortBy, key |-> key, t0 |-> t0, pc |-> pc, hit |-> hit,
     res |-> res, fetches |-> fetches]

\* Lines 47..55: cachedFetch up to its first await.
cachedFetchStart(sortBy, key, c, t, ttlMs) ==
    LET cached == cacheGet(c, key)
    IN IF isFresh(cached, t, ttlMs)
       THEN Call(sortBy, key, t, "ok", TRUE, cached.data, 0)
       ELSE Call(sortBy, key, t, "fetching", FALSE, JUndefined, 1)

\* What the upstream answers: res.ok, and what res.json() yields.
InvalidJson == Throw("SyntaxError")
Replies ==
    {[ok |-> FALSE, body |-> JUndefined]}
        \cup {[ok |-> TRUE, body |-> b] : b \in Payloads \cup {InvalidJson}}

\* Lines 55..63 with cache.set moved before the checks of the answer.
cachedFetchResumeSetFirst(call, reply, c, ttlMs) ==
    LET entry == [ts |-> call.t0, ttlMs |-> ttlMs,
                  data |-> IF IsThrow(reply.body) THEN JUndefined ELSE reply.body]
        c2 == cacheSet(c, call.key, entry)
    IN IF ~reply.ok
       THEN [call |-> [call EXCEPT !.pc = "failed", !.res = Err(HttpErrorMessage)],
             cache |-> c2]
       ELSE IF IsThrow(reply.body)
       THEN [call |-> [call EXCEPT !.pc = "failed", !.res = Err(ParseErrorMessage)],
             cache |-> c2]
       ELSE [call |-> [call EXCEPT !.pc = "ok", !.res = reply.body], cache |-> c2]

\* Lines 55..63 with a second fetch() after a failed one.
cachedFetchResumeRetry(call, reply, c, ttlMs) ==
    IF (~reply.ok \/ IsThrow(reply.body)) /\ call.fetches < 2
    THEN [call |-> [call EXCEPT !.fetches = call.fetches + 1], cache |-> c]
    ELSE IF ~reply.ok
    THEN [call |-> [call EXCEPT !.pc = "failed", !.res = Err(HttpErrorMessage)],
          cache |-> c]
    ELSE IF IsThrow(reply.body)
    THEN [call |-> [call EXCEPT !.pc = "failed", !.res = Err(ParseErrorMessage)],
          cache |-> c]
    ELSE LET entry == [ts |-> call.t0, ttlMs |-> ttlMs, data |-> reply.body]
         IN [call |-> [call EXCEPT !.pc = "ok", !.res = reply.body],
             cache |-> cacheSet(c, call.key, entry)]

\* Lines 55..63: cachedFetch from the upstream's answer on.  Yields the
\* settled call and the cache it leaves.
cachedFetchResume(call, reply, c, ttlMs) ==
    IF ~reply.ok
    THEN [call |-> [call EXCEPT !.pc = "failed", !.res = Err(HttpErrorMessage)],
          cache |-> c]
    ELSE IF IsThrow(reply.body)
    THEN [call |-> [call EXCEPT !.pc = "failed", !.res = Err(ParseErrorMessage)],
          cache |-> c]
    ELSE LET entry == [ts |-> call.t0, ttlMs |-> ttlMs, data |-> reply.body]
         IN [call |-> [call EXCEPT !.pc = "ok", !.res = reply.body],
             cache |-> cacheSet(c, call.key, entry)]

\* fetchFeed: variant C rejects a sortBy outside ALLOWED_SORTS (lines 562..564)
\* before building the key; variants A and B forward any sortBy.
fetchFeed(v, sortBy, limit, chainType, c, t) ==
    IF v = "C" /\ sortBy \notin ALLOWED_SORTS
    THEN Call(sortBy, "", t, "failed", FALSE,
              Err("Invalid sortBy: " \o sortBy), 0)
    ELSE cachedFetchStart(sortBy, cacheKey(sortBy, limit, chainType), c, t,
                          DEFAULT_CACHE_TTL_MS)

-----------------------------------------------------------------------------
(* Route handlers                                                          *)

NoFeeds == <<>>
Response(status, error, message, items, feeds) ==
    [status |-> status, error |-> error, message |-> message,
     items |-> items, feeds |-> feeds]
NoResp == Response(0, "", "", JUndefined, NoFeeds)

Request(kind, sortBy, limit, chainType, sorts, calls, resp) ==
    [kind |-> kind, sortBy |-> sortBy, limit |-> limit, chainType |-> chainType,
     sorts |-> sorts, calls |-> calls, resp |-> resp]

\* The normalizeDubDubFeed of the running variant (variant C defines none).
normalizeDubDubFeed(v, data) ==
    IF v = "A" THEN normalizeDubDubFeedA(data) ELSE normalizeDubDubFeedB(data)

\* feeds[name] = val on an object held as a sequence of <<name, value>>.
objSet(kvs, name, val) ==
    IF \E i \in 1..Len(kvs) : kvs[i][1] = name
    THEN [i \in 1..Len(kvs) |-> IF kvs[i][1] = name THEN <<name, val>> ELSE kvs[i]]
    ELSE Append(kvs, <<name, val>>)

\* .catch((err) => ({ _error: err.message })): what Promise.all collects.
rawResult(call) ==
    IF call.pc = "failed" THEN JObj(<< <<"_error", JStr(call.res.v)>> >>)
    ELSE call.res

\* The value the batch handler puts in feeds[name] for one collected result.
feedSlot(v, res) ==
    IF v = "C" THEN res
    ELSE IF Truthy(res) /\ Truthy(Get(res, "_error")) THEN EmptyArr
    ELSE normalizeDubDubFeed(v, res)

\* sorts.forEach((name, idx) => { feeds[name] = ... }) from index i on.
RECURSIVE buildFeeds(_, _, _, _, _)
buildFeeds(v, sorts, calls, i, feeds) ==
    IF i > Len(sorts) THEN feeds
    ELSE buildFeeds(v, sorts, calls, i + 1,
                    objSet(feeds, sorts[i], feedSlot(v, rawResult(calls[i]))))

InternalError(message) == Response(500, "internal_error", message, JUndefined, NoFeeds)

\* The single-mode handler with `items: raw` in every variant.
singleResponseRaw(v, call) ==
    IF call.pc = "failed" THEN InternalError(call.res.v)
    ELSE Response(200, "", "", call.res, NoFeeds)

\* GET /anoncoin/feeds after `await fetchFeed(...)`.
singleResponse(v, call) ==
    IF call.pc = "failed" THEN InternalError(call.res.v)
    ELSE LET items == IF v = "C" THEN call.res ELSE normalizeDubDubFeed(v, call.res)
         IN IF IsThrow(items) THEN InternalError(items.v)
            ELSE Response(200, "", "", items, NoFeeds)

\* GET /anoncoin/feeds/all after `await Promise.all(...)`.
batchResponse(v, sorts, calls) ==
    LET feeds == buildFeeds(v, sorts, calls, 1, <<>>)
    IN IF \E i \in 1..Len(feeds) : IsThrow(feeds[i][2])
       THEN InternalError("TypeError")
       ELSE Response(200, "", "", JUndefined, feeds)

Settled(call) == call.pc # "fetching"
AllSettled(calls) == \A i \in 1..Len(calls) : Settled(calls[i])

\* The handler answering as soon as one of its calls has settled.
respondIfAnySettled(v, req) ==
    IF req.resp # NoResp
       \/ ~(\E i \in 1..Len(req.calls) : Settled(req.calls[i]))
    THEN req
    ELSE [req EXCEPT !.resp = IF req.kind = "single"
                               THEN singleResponse(v, req.calls[1])
                               ELSE batchResponse(v, req.sorts, req.calls)]

\* The handler's continuation: it answers once every awaited call has settled.
respondIfSettled(v, req) ==
    IF req.resp # NoResp \/ ~AllSettled(req.calls) THEN req
    ELSE [req EXCEPT !.resp = IF req.kind = "single"
                               THEN singleResponse(v, req.calls[1])
                               ELSE batchResponse(v, req.sorts, req.calls)]

\* The single-mode handler without the ALLOWED_SORTS check of lines 606..611.
getFeedsNoCheck(v, qSortBy, qLimit, qChain, c, t) ==
    LET sortBy == sortByOf(v, qSortBy)
        limit == limitOf(qLimit)
        chainType == chainTypeOf(qChain)
    IN respondIfSettled(v,
           Request("single", sortBy, limit, chainType, <<sortBy>>,
                   <<fetchFeed(v, sortBy, limit, chainType, c, t)>>, NoResp))

\* GET /anoncoin/feeds up to its await (lines 149..155, 388..394, 600..613).
getFeeds(v, qSortBy, qLimit, qChain, c, t) ==
    LET sortBy == sortByOf(v, qSortBy)
        limit == limitOf(qLimit)
        chainType == chainTypeOf(qChain)
    IN IF v = "C" /\ sortBy \notin ALLOWED_SORTS
       THEN Request("single", sortBy, limit, chainType, <<sortBy>>, <<>>,
                    Response(400, "invalid_sortBy", "sortBy must be one of: trending, new, hot, volume",
                             JUndefined, NoFeeds))
       ELSE respondIfSettled(v,
                Request("single", sortBy, limit, chainType, <<sortBy>>,
                        <<fetchFeed(v, sortBy, limit, chainType, c, t)>>, NoResp))

\* The batch handler without the `if (!sorts.length)` check of lines 205..210.
getFeedsAllNoCheck(v, qModes, qLimit, qChain, c, t) ==
    LET limit == limitOf(qLimit)
        chainType == chainTypeOf(qChain)
        sorts == IF v = "C" THEN AllowedSortsList ELSE sortsOf(qModes)
    IN respondIfSettled(v,
           Request("batch", "", limit, chainType, sorts,
                   [i \in 1..Len(sorts) |->
                       fetchFeed(v, sorts[i], limit, chainType, c, t)],
                   NoResp))

\* GET /anoncoin/feeds/all up to its await (lines 190..218, 430..458, 642..655).
getFeedsAll(v, qModes, qLimit, qChain, c, t) ==
    LET limit == limitOf(qLimit)
        chainType == chainTypeOf(qChain)
        sorts == IF v = "C" THEN AllowedSortsList ELSE sortsOf(qModes)
    IN IF Len(sorts) = 0
       THEN Request("batch", "", limit, chainType, sorts, <<>>,
                    Response(400, "invalid_modes", "modes query must contain at least one sort key",
                             JUndefined, NoFeeds))
       ELSE respondIfSettled(v,
                Request("batch", "", limit, chainType, sorts,
                        [i \in 1..Len(sorts) |->
                            fetchFeed(v, sorts[i], limit, chainType, c, t)],
                        NoResp))

-----------------------------------------------------------------------------
(* The service as a state machine                                          *)

RECURSIVE TotalCalls(_)
TotalCalls(rs) ==
    IF rs = <<>> THEN 0 ELSE Len(rs[1].calls) + TotalCalls(Tail(rs))

Init ==
    /\ variant \in Variants
    /\ now = 0
    /\ cache = [k \in {} |-> NoEntry]
    /\ reqs = <<>>
    /\ raw = JNull
    /\ out = JUndefined
    /\ again = JUndefined
    /\ largest = JUndefined

\* Time passes.
Tick ==
    /\ now + TickMs <= MaxTicks * TickMs
    /\ now' = now + TickMs
    /\ UNCHANGED <<variant, cache, reqs, normVars>>

\* Lines 51..53 with the entry's timestamp renewed when it serves a hit.
cacheAfterHitTouched(c, key, t) == cacheSet(c, key, [c[key] EXCEPT !.ts = t])

\* Lines 51..53: a hit returns cached.data and makes no cache.set.
cacheAfterHit(c, key, t) == c

\* The cache once the calls from position i on have run up to their first
\* await: a miss writes nothing before its fetch is answered.
RECURSIVE cacheAfterStarts(_, _, _)
cacheAfterStarts(c, calls, i) ==
    IF i > Len(calls) THEN c
    ELSE cacheAfterStarts(IF calls[i].hit
                          THEN cacheAfterHit(c, calls[i].key, calls[i].t0)
                          ELSE c,
                          calls, i + 1)

Accept(req) ==
    /\ Len(reqs) < MaxReqs
    /\ TotalCalls(reqs) + Len(req.calls) <= MaxCalls
    /\ reqs' = Append(reqs, req)
    /\ cache' = cacheAfterStarts(cache, req.calls, 1)
    /\ UNCHANGED <<variant, now, normVars>>

\* A client sends GET /anoncoin/feeds.
SingleRequest ==
    \E s \in SortByInputs, l \in LimitInputs, ch \in ChainInputs :
        Accept(getFeeds(variant, s, l, ch, cache, now))

\* A client sends GET /anoncoin/feeds/all.
BatchRequest ==
    \E m \in ModesInputs, l \in BatchLimitInputs, ch \in ChainInputs :
        Accept(getFeedsAll(variant, m, l, ch, cache, now))

\* The upstream answers the fetch of call i of request r.
UpstreamReply ==
    \E r \in 1..Len(reqs) : \E i \in 1..Len(reqs[r].calls) : \E reply \in Replies :
        /\ reqs[r].calls[i].pc = "fetching"
        /\ \E done \in {cachedFetchResume(reqs[r].calls[i], reply, cache,
                                           DEFAULT_CACHE_TTL_MS)} :
              /\ cache' = done.cache
              /\ \E answered \in {respondIfSettled(variant,
                                    [reqs[r] EXCEPT !.calls[i] = done.call])} :
                    reqs' = [reqs EXCEPT ![r] = answered]
        /\ UNCHANGED <<variant, now, normVars>>

Next == Tick \/ SingleRequest \/ BatchRequest \/ UpstreamReply

Spec == Init /\ [][Next]_vars

\* The service with a client that sends batch requests one at a time, each
\* after the answer to the one before, and an upstream that answers every
\* fetch in the end: fetch() settles, and the event loop runs the
\* continuation of every settled promise.
BatchAfterAnswer ==
    /\ \A r \in 1..Len(reqs) : reqs[r].resp # NoResp
    /\ BatchRequest

BatchNext == BatchAfterAnswer \/ UpstreamReply

BatchSpec == Init /\ [][BatchNext]_vars /\ WF_vars(UpstreamReply)

-----------------------------------------------------------------------------
(* The service with clients whose parameters contain the key's separator   *)

KeySortByInputs == {"hot", "hot:5"}
KeyChainInputs == {Undefined, "10:solana"}

\* A client sends GET /anoncoin/feeds with such parameters.
KeyRequest ==
    \E s \in KeySortByInputs, l \in LimitInputs, ch \in KeyChainInputs :
        Accept(getFeeds(variant, s, l, ch, cache, now))

KeyNext == Tick \/ KeyRequest \/ UpstreamReply

KeySpec == Init /\ [][KeyNext]_vars

-----------------------------------------------------------------------------
(* The normalizers run on their own, over a bounded set of JSON values     *)

MaxArrLen == 2      \* longest array among the inputs
MaxKeys == 2        \* most fields of a top-level object among the inputs
MaxNest == 6        \* deepest nesting among the inputs

Scalars ==
    {JNull, JBool(TRUE), JBool(FALSE), JNum(0), JNum(1), JStr(""), JStr("s")}

ArrA == JArr(<<ObjA1>>)
ArrB == JArr(<<ObjB2, ObjA1>>)
ArrNum == JArr(<<JNum(1)>>)

ArrayElems == {JNull, JNum(1), ObjA1, ObjB2, ArrA}
ArrayInputs ==
    {JArr(s) : s \in UNION {[1..n -> ArrayElems] : n \in 0..MaxArrLen}}

\* Values of the fields of a top-level object: scalars, arrays, and objects
\* with and without an array among their own values.
FieldValues ==
    {JNull, JNum(1), JStr("s"), EmptyArr, ArrA, ArrB, ArrNum,
     JObj(<<>>),
     JObj(<< <<"x", JNum(1)>> >>),
     JObj(<< <<"x", JNum(1)>>, <<"y", ArrB>> >>),
     JObj(<< <<"y", ArrA>>, <<"0", ArrNum>> >>),
     JObj(<< <<"x", JObj(<< <<"y", ArrB>> >>)>> >>)}

FieldNames == {"feeds", "items", "data", "coins", "x", "0"}

\* Sequences of n distinct field names.
KeySeqs(n) ==
    {ks \in [1..n -> FieldNames] : \A i, j \in 1..n : i # j => ks[i] # ks[j]}

\* v wrapped in n objects { "x": ... }.
RECURSIVE NestObj(_, _)
NestObj(n, v) ==
    IF n = 0 THEN v ELSE JObj(<< <<"x", NestObj(n - 1, v)>> >>)

DeepInputs == {NestObj(n, v) : n \in 1..MaxNest, v \in {JNum(1), ArrB}}

\* The object with fields ks[1], ks[2], ... of values vs[1], vs[2], ...
ObjectOf(ks, vs) == JObj([i \in 1..Len(ks) |-> <<ks[i], vs[i]>>])

NormInit ==
    /\ variant \in {"A", "B"}
    /\ now = 0
    /\ cache = [k \in {} |-> NoEntry]
    /\ reqs = <<>>
    /\ \/ raw \in Scalars \cup ArrayInputs \cup DeepInputs
       \/ \E n \in 0..MaxKeys :
            \E ks \in KeySeqs(n) : \E vs \in [1..n -> FieldValues] :
                raw = ObjectOf(ks, vs)
    /\ out = JUndefined
    /\ again = JUndefined
    /\ largest = JUndefined

\* normalizeDubDubFeed(raw) is called.
Normalize ==
    /\ out = JUndefined
    /\ out' = normalizeDubDubFeed(variant, raw)
    /\ UNCHANGED <<variant, now, cache, reqs, raw, again, largest>>

\* normalizeDubDubFeed is called on what it returned.
NormalizeAgain ==
    /\ out # JUndefined
    /\ again = JUndefined
    /\ again' = normalizeDubDubFeed(variant, out)
    /\ UNCHANGED <<variant, now, cache, reqs, raw, out, largest>>

\* findLargestObjectArray(raw, 5) is called (variant A defines it).
FindLargest ==
    /\ variant = "A"
    /\ largest = JUndefined
    /\ largest' = findLargestObjectArray(raw, 5)
    /\ UNCHANGED <<variant, now, cache, reqs, raw, out, again>>

NormNext == Normalize \/ NormalizeAgain \/ FindLargest

NormSpec == NormInit /\ [][NormNext]_vars

-----------------------------------------------------------------------------
(* Properties of the cache                                                 *)

\* A step in which a request is received, and that request.
Received == Len(reqs') = Len(reqs) + 1
NewReq == reqs'[Len(reqs')]

\* The entry a successful call c leaves in the cache.
EntryOf(c) == [ts |-> c.t0, ttlMs |-> DEFAULT_CACHE_TTL_MS, data |-> c.res]

\* Call j of request r went from in flight to settled with pc = p in this step.
Settles(r, j, p) ==
    /\ reqs[r].calls[j].pc = "fetching"
    /\ reqs'[r].calls[j].pc = p

C2_NeverStale ==
    [][/\ Received =>
            \A i \in 1..Len(NewReq.calls) :
              LET c == NewReq.calls[i]
                  e == cacheGet(cache, c.key)
              IN /\ c.hit => /\ e # NoEntry
                             /\ ~(now - e.ts >= DEFAULT_CACHE_TTL_MS)
                             /\ c.res = e.data
                 /\ (c.key # "" /\ (e = NoEntry \/ now - e.ts >= DEFAULT_CACHE_TTL_MS))
                      => /\ ~c.hit
                         /\ c.pc = "fetching"
                         /\ c.fetches = 1
       /\ \A r \in 1..Len(reqs) : \A j \in 1..Len(reqs[r].calls) :
            Settles(r, j, "ok") =>
                /\ reqs'[r].calls[j].fetches = 1
                /\ reqs[r].calls[j].key \in DOMAIN cache'
                /\ cache'[reqs[r].calls[j].key].data = reqs'[r].calls[j].res]_vars

\* Witness of C2: an entry exactly ttl old was refetched and overwritten.
C2_Witness ==
    \E r1, r2 \in 1..Len(reqs) :
        /\ r1 < r2
        /\ Len(reqs[r1].calls) > 0 /\ Len(reqs[r2].calls) > 0
        /\ reqs[r1].calls[1].pc = "ok" /\ ~reqs[r1].calls[1].hit
        /\ reqs[r2].calls[1].key = reqs[r1].calls[1].key
        /\ reqs[r2].calls[1].t0 - reqs[r1].calls[1].t0 = DEFAULT_CACHE_TTL_MS
        /\ reqs[r2].calls[1].pc = "ok" /\ ~reqs[r2].calls[1].hit
        /\ reqs[r2].calls[1].fetches = 1
        /\ reqs[r2].calls[1].res # reqs[r1].calls[1].res
        /\ cache[reqs[r2].calls[1].key] = EntryOf(reqs[r2].calls[1])

\* C3: when the upstream call of a getOne fails (a non-success status, or a
\* body that is not JSON) the call's promise is rejected with the error, a
\* single-mode query answers it as a server error carrying the message, and
\* the step leaves the cache as it was; receiving a request does not change
\* the cache either.
C3_FailureLeavesCache ==
    [][/\ Received => cache' = cache
       /\ \A r \in 1..Len(reqs) : \A j \in 1..Len(reqs[r].calls) :
            Settles(r, j, "failed") =>
                /\ cache' = cache
                /\ reqs'[r].calls[j].res
                      \in {Err(HttpErrorMessage), Err(ParseErrorMessage)}
                /\ reqs[r].kind = "single" =>
                      reqs'[r].resp = InternalError(reqs'[r].calls[j].res.v)]_vars

\* Witness of C3: a call failed on a stale entry, which is still in the cache.
C3_Witness ==
    \E r1, r2 \in 1..Len(reqs) :
        /\ r1 < r2
        /\ reqs[r1].kind = "single" /\ reqs[r2].kind = "single"
        /\ reqs[r1].calls # <<>> /\ reqs[r2].calls # <<>>
        /\ reqs[r1].calls[1].pc = "ok" /\ ~reqs[r1].calls[1].hit
        /\ reqs[r2].calls[1].key = reqs[r1].calls[1].key
        /\ reqs[r2].calls[1].pc = "failed"
        /\ reqs[r2].calls[1].res = Err(ParseErrorMessage)
        /\ reqs[r2].resp.status = 500
        /\ cache[reqs[r1].calls[1].key] = EntryOf(reqs[r1].calls[1])
        /\ reqs[r2].calls[1].t0 - reqs[r1].calls[1].t0 >= DEFAULT_CACHE_TTL_MS

-----------------------------------------------------------------------------
(* Properties of the route handlers                                        *)

HasSlot(feeds, name) == \E i \in 1..Len(feeds) : feeds[i][1] = name
SlotOf(feeds, name) ==
    feeds[CHOOSE i \in 1..Len(feeds) : feeds[i][1] = name][2]

\* C4: in variants A and B a batch with at least one mode answers 200 however
\* many of its upstream calls fail; every requested mode has a slot, the slot
\* of a mode whose call failed is [], and the slot of a mode whose call
\* succeeded is the normalization of that call's payload.
C4_BatchIsolation ==
    \A r \in 1..Len(reqs) :
        (variant \in {"A", "B"} /\ reqs[r].kind = "batch"
            /\ Len(reqs[r].sorts) > 0 /\ AllSettled(reqs[r].calls))
        => /\ reqs[r].resp.status = 200
           /\ \A i \in 1..Len(reqs[r].sorts) :
                /\ HasSlot(reqs[r].resp.feeds, reqs[r].sorts[i])
                /\ reqs[r].calls[i].pc = "failed" =>
                      SlotOf(reqs[r].resp.feeds, reqs[r].sorts[i]) = EmptyArr
                /\ reqs[r].calls[i].pc = "ok" =>
                      SlotOf(reqs[r].resp.feeds, reqs[r].sorts[i])
                          = normalizeDubDubFeed(variant, reqs[r].calls[i].res)

\* C5: in variant C the batch answers 200 when upstream calls fail, and the
\* slot of a mode whose call failed is [].
C5_AllowListBatchSlot ==
    \A r \in 1..Len(reqs) :
        (variant = "C" /\ reqs[r].kind = "batch" /\ AllSettled(reqs[r].calls))
        => /\ reqs[r].resp.status = 200
           /\ \A i \in 1..Len(reqs[r].sorts) :
                reqs[r].calls[i].pc = "failed" =>
                    /\ HasSlot(reqs[r].resp.feeds, reqs[r].sorts[i])
                    /\ SlotOf(reqs[r].resp.feeds, reqs[r].sorts[i]) = EmptyArr

\* Every entry of the cache is the raw payload some call fetched, stamped
\* with that call's `now`.
CacheHoldsRaw ==
    \A k \in DOMAIN cache :
        \E r \in 1..Len(reqs) : \E j \in 1..Len(reqs[r].calls) :
            /\ reqs[r].calls[j].key = k
            /\ reqs[r].calls[j].pc = "ok" /\ ~reqs[r].calls[j].hit
            /\ reqs[r].calls[j].res \in Payloads
            /\ cache[k] = EntryOf(reqs[r].calls[j])

\* C6 as claimed: in every variant the items of a single-mode answer are
\* normalize(raw), raw being what the call returned from the cache or from
\* the upstream; the cache holds raw payloads.
C6_NormalizedEveryVariant ==
    /\ CacheHoldsRaw
    /\ \A r \in 1..Len(reqs) :
        (reqs[r].kind = "single" /\ reqs[r].calls # <<>>
            /\ reqs[r].calls[1].pc = "ok")
        => /\ reqs[r].resp.status = 200
           /\ reqs[r].resp.items
                = normalizeDubDubFeed(variant, reqs[r].calls[1].res)

\* C6 amended: in variants A and B the items of a single-mode answer are
\* that variant's normalizeDubDubFeed(raw), on a hit and on a miss; in
\* variant C, which defines no normalizer, the items are raw itself; in
\* every variant the cache holds raw payloads.
C6_NormalizedWhereDefined ==
    /\ CacheHoldsRaw
    /\ \A r \in 1..Len(reqs) :
        (reqs[r].kind = "single" /\ reqs[r].calls # <<>>
            /\ reqs[r].calls[1].pc = "ok")
        => /\ reqs[r].resp.status = 200
           /\ variant = "A" =>
                reqs[r].resp.items = normalizeDubDubFeedA(reqs[r].calls[1].res)
           /\ variant = "B" =>
                reqs[r].resp.items = normalizeDubDubFeedB(reqs[r].calls[1].res)
           /\ variant = "C" => reqs[r].resp.items = reqs[r].calls[1].res

\* Witness of C6: a hit answered with items that differ from the cached raw
\* payload they were normalized from.
C6_Witness ==
    \E r \in 1..Len(reqs) :
        /\ variant = "B"
        /\ reqs[r].kind = "single" /\ reqs[r].calls # <<>>
        /\ reqs[r].calls[1].hit
        /\ reqs[r].calls[1].res = PayloadEnvelope
        /\ cache[reqs[r].calls[1].key].data = PayloadEnvelope
        /\ reqs[r].resp.items = JArr(<<ObjA1, ObjA2>>)

\* C7: a batch request whose modes yield no name after splitting, trimming
\* and dropping the empty ones is answered 400 invalid_modes at once, starts
\* no fetchFeed call (hence no upstream call) and leaves the cache unchanged.
C7_NoValidModes ==
    [][(Received /\ NewReq.kind = "batch" /\ Len(NewReq.sorts) = 0)
        => /\ NewReq.resp.status = 400
           /\ NewReq.resp.error = "invalid_modes"
           /\ NewReq.calls = <<>>
           /\ TotalCalls(reqs') = TotalCalls(reqs)
           /\ cache' = cache]_vars

\* Witness of C7: a batch without a usable mode, rejected, while the cache
\* holds an entry.
C7_Witness ==
    \E r \in 1..Len(reqs) :
        /\ reqs[r].kind = "batch"
        /\ reqs[r].sorts = <<>>
        /\ reqs[r].resp.status = 400
        /\ DOMAIN cache # {}

\* C8: in variant C a single-mode request whose sortBy is outside
\* ALLOWED_SORTS is answered 400 invalid_sortBy, starts no fetchFeed call and
\* leaves the cache unchanged; one whose sortBy is in ALLOWED_SORTS is not
\* answered invalid_sortBy and goes on to cachedFetch.
C8_InvalidMode ==
    [][(Received /\ variant = "C" /\ NewReq.kind = "single")
        => /\ NewReq.sortBy \notin ALLOWED_SORTS =>
                /\ NewReq.resp.status = 400
                /\ NewReq.resp.error = "invalid_sortBy"
                /\ NewReq.calls = <<>>
                /\ cache' = cache
           /\ NewReq.sortBy \in ALLOWED_SORTS =>
                /\ NewReq.resp.status # 400
                /\ NewReq.resp.error # "invalid_sortBy"
                /\ Len(NewReq.calls) = 1
                /\ NewReq.calls[1].key # ""]_vars

\* Witness of C8: variant C rejected "bogus" and accepted "hot".
C8_Witness ==
    \E r1, r2 \in 1..Len(reqs) :
        /\ variant = "C"
        /\ reqs[r1].kind = "single" /\ reqs[r1].sortBy = "bogus"
        /\ reqs[r1].resp.status = 400 /\ reqs[r1].calls = <<>>
        /\ reqs[r2].kind = "single" /\ reqs[r2].sortBy = "hot"
        /\ reqs[r2].resp.status = 200

-----------------------------------------------------------------------------
(* Properties of the normalizers                                           *)

Normalized == out # JUndefined

\* C9: on every JSON value both normalizers return an array and never throw.
C9_NormalizerTotal ==
    Normalized => out.t = "arr"

\* Witness of C9: null, a scalar or an object without any array, normalized
\* to the empty array.
C9_Witness ==
    /\ Normalized
    /\ raw \in {JNull, JNum(0), JStr("s"), JObj(<<>>), NestObj(MaxNest, JNum(1))}
    /\ out = EmptyArr

\* The reference chain of the normalizer's fallbacks.
RECURSIVE RefFirstSeq(_)
RefFirstSeq(vals) ==
    IF vals = <<>> THEN JUndefined
    ELSE IF Head(vals).t = "arr" THEN Head(vals)
    ELSE RefFirstSeq(Tail(vals))

RefField(obj, name) ==
    LET hits == SelectSeq(obj.v, LAMBDA p : p[1] = name)
    IN IF hits = <<>> THEN JUndefined ELSE hits[1][2]

RefValues(obj) == [i \in 1..Len(obj.v) |-> OwnPairs(obj.v)[i][2]]

\* The first of the named fields whose value is a sequence.
RefNamed(obj, names) ==
    RefFirstSeq([i \in 1..Len(names) |-> RefField(obj, names[i])])

\* The first sequence among the values of an object-valued feeds field.
RefFeedsObject(obj) ==
    IF RefField(obj, "feeds").t = "obj"
    THEN RefFirstSeq(RefValues(RefField(obj, "feeds")))
    ELSE JUndefined

\* The first sequence among all top-level values.
RefTopLevel(obj) == RefFirstSeq(RefValues(obj))

OrElse(a, b) == IF a.t = "arr" THEN a ELSE b

\* Steps (3), (4), (5), (6) in the order the claim gives them.
ChainAsClaimed(obj) ==
    OrElse(RefNamed(obj, <<"feeds", "items", "data", "docs", "results", "tokens", "coins">>),
    OrElse(RefFeedsObject(obj),
    OrElse(RefTopLevel(obj), EmptyArr)))

\* The order the code follows: feeds as a sequence, the values of feeds as an
\* object, the other preferred fields, all top-level values.
ChainAsCoded(obj) ==
    OrElse(RefNamed(obj, <<"feeds">>),
    OrElse(RefFeedsObject(obj),
    OrElse(RefNamed(obj, <<"items", "data", "docs", "results", "tokens", "coins">>),
    OrElse(RefTopLevel(obj), EmptyArr))))

\* C10 as claimed: on an object, variant B's normalizer returns the first
\* sequence among feeds, items, data, docs, results, tokens, coins; else the
\* first sequence among the values of an object-valued feeds; else the first
\* sequence among the top-level values; else [].
C10_FallbackOrderClaimed ==
    (variant = "B" /\ Normalized /\ raw.t = "obj") => out = ChainAsClaimed(raw)

\* C10 amended: on an object, variant B's normalizer returns feeds when it is
\* a sequence; else the first sequence among the values of an object-valued
\* feeds; else the first sequence among items, data, docs, results, tokens,
\* coins; else the first sequence among the top-level values; else [].
C10_FallbackOrder ==
    (variant = "B" /\ Normalized /\ raw.t = "obj") => out = ChainAsCoded(raw)

\* Witness of C10: feeds is an object holding a sequence, items is a
\* sequence, and the sequence inside feeds is returned.
C10_Witness ==
    /\ variant = "B" /\ Normalized
    /\ raw = JObj(<< <<"items", ArrA>>,
                     <<"feeds", JObj(<< <<"x", JNum(1)>>, <<"y", ArrB>> >>)>> >>)
    /\ out = ArrB

-----------------------------------------------------------------------------
(* Properties of the search for the largest array                          *)

\* A non-empty sequence every element of which is an object.
IsSeqOfObjects(x) ==
    /\ x.t = "arr" /\ Len(x.v) # 0
    /\ \A i \in 1..Len(x.v) : x.v[i].t = "obj"

\* The values of the top-level fields of obj that are sequences of objects.
TopLevelSeqs(obj) ==
    {obj.v[i][2] : i \in {j \in 1..Len(obj.v) : IsSeqOfObjects(obj.v[j][2])}}

RECURSIVE RefFlatten(_)
RefFlatten(seqs) ==
    IF seqs = <<>> THEN <<>> ELSE Head(seqs) \o RefFlatten(Tail(seqs))

\* An array the search takes for an array of objects: non-empty, its first
\* element an object, an array or null.
RefCandidate(x) ==
    x.t = "arr" /\ Len(x.v) # 0 /\ x.v[1].t \in {"obj", "arr", "null"}

\* The candidates at nesting depth depth..maxDepth below node, node itself at
\* depth `depth`, in the order a pre-order traversal meets them.
RECURSIVE RefCandidates(_, _, _)
RefCandidates(node, depth, maxDepth) ==
    IF depth > maxDepth THEN <<>>
    ELSE IF node.t = "arr" THEN
        (IF RefCandidate(node) THEN <<node>> ELSE <<>>)
        \o RefFlatten([i \in 1..Len(node.v) |->
                          RefCandidates(node.v[i], depth + 1, maxDepth)])
    ELSE IF node.t = "obj" THEN
        RefFlatten([i \in 1..Len(node.v) |->
                      RefCandidates(RefValues(node)[i], depth + 1, maxDepth)])
    ELSE <<>>

\* The first of the longest arrays of cands; the empty array when cands is
\* empty.
RefLargest(cands) ==
    IF cands = <<>> THEN EmptyArr
    ELSE cands[CHOOSE i \in 1..Len(cands) :
                 /\ \A j \in 1..Len(cands) : Len(cands[j].v) <= Len(cands[i].v)
                 /\ \A j \in 1..(i - 1) : Len(cands[j].v) < Len(cands[i].v)]

-----------------------------------------------------------------------------
(* Properties of the normalizers on sequences                              *)

Renormalized == again # JUndefined

-----------------------------------------------------------------------------
(* Properties of the batch fan-out                                         *)

Responded(r) == Len(reqs) >= r /\ reqs[r].resp # NoResp
SortNames(req) == {req.sorts[i] : i \in 1..Len(req.sorts)}
SlotNames(req) == {req.resp.feeds[i][1] : i \in 1..Len(req.resp.feeds)}

\* C13: a batch with at least one usable mode has started the fetchFeed of
\* every requested mode by the time the handler first waits (every call that
\* missed the cache has its fetch in flight in the step the request is
\* received); it is answered only once every call has settled and the answer
\* never changes afterwards; it carries one slot per distinct requested
\* name; and when the upstream answers every fetch, every batch is answered.
C13_BatchJoin ==
    /\ [][(Received /\ NewReq.kind = "batch" /\ Len(NewReq.sorts) > 0)
            => /\ Len(NewReq.calls) = Len(NewReq.sorts)
               /\ \A i \in 1..Len(NewReq.calls) :
                    /\ NewReq.calls[i].sortBy = NewReq.sorts[i]
                    /\ NewReq.calls[i].t0 = now
                    /\ ~NewReq.calls[i].hit =>
                          /\ NewReq.calls[i].pc = "fetching"
                          /\ NewReq.calls[i].fetches = 1]_vars
    /\ [](\A r \in 1..Len(reqs) :
            (reqs[r].kind = "batch" /\ Len(reqs[r].sorts) > 0)
            => /\ (reqs[r].resp # NoResp) <=> AllSettled(reqs[r].calls)
               /\ reqs[r].resp # NoResp =>
                    /\ reqs[r].resp.status = 200
                    /\ SlotNames(reqs[r]) = SortNames(reqs[r])
                    /\ Len(reqs[r].resp.feeds) = Cardinality(SortNames(reqs[r])))
    /\ [][\A r \in 1..Len(reqs) :
            reqs[r].resp # NoResp => reqs'[r].resp = reqs[r].resp]_vars
    /\ \A r \in 1..MaxReqs :
            (Len(reqs) >= r /\ reqs[r].kind = "batch") ~> Responded(r)

\* Witness of C13: a batch naming "hot" twice and answered with one slot,
\* its two calls settled at different times.
C13_Witness ==
    \E r \in 1..Len(reqs) :
        /\ reqs[r].kind = "batch"
        /\ reqs[r].sorts = <<"hot", "hot">>
        /\ AllSettled(reqs[r].calls)
        /\ reqs[r].calls[1].pc = "failed" /\ reqs[r].calls[2].pc = "ok"
        /\ reqs[r].resp.status = 200
        /\ Len(reqs[r].resp.feeds) = 1

-----------------------------------------------------------------------------
(* Properties of single invocations of cachedFetch                         *)

\* C14: an invocation of cachedFetch makes no fetch when it hits the cache
\* and exactly one when it misses; the upstream's answer to that one fetch
\* settles the invocation, as fulfilled or as rejected with the error, without
\* another fetch, and a settled invocation does nothing more.
C14_NoRetry ==
    [][\A r \in 1..Len(reqs') : \A j \in 1..Len(reqs'[r].calls) :
          LET c == reqs'[r].calls[j]
          IN /\ c.fetches <= 1
             /\ c.hit => (c.fetches = 0 /\ c.pc = "ok")
             /\ (~c.hit /\ c.key # "") => c.fetches = 1
             /\ (r <= Len(reqs) /\ reqs[r].calls[j] # c) =>
                   /\ reqs[r].calls[j].pc = "fetching"
                   /\ c.pc \in {"ok", "failed"}
                   /\ c.fetches = reqs[r].calls[j].fetches
                   /\ c.pc = "failed" =>
                         c.res \in {Err(HttpErrorMessage), Err(ParseErrorMessage)}]_vars

\* Witness of C14: the one fetch of a single-mode query was answered with an
\* error status and the query was answered with that error.
C14_Witness ==
    \E r \in 1..Len(reqs) :
        /\ reqs[r].kind = "single" /\ reqs[r].calls # <<>>
        /\ reqs[r].calls[1].pc = "failed"
        /\ reqs[r].calls[1].fetches = 1
        /\ reqs[r].calls[1].res = Err(HttpErrorMessage)
        /\ reqs[r].resp = InternalError(HttpErrorMessage)

-----------------------------------------------------------------------------
(* Properties of overlapping invocations on one key                        *)

\* The invocations of cachedFetch so far, as <<request, position>>, in the
\* order they were started.
CallIds ==
    {id \in (1..MaxReqs) \X (1..MaxCalls) :
        id[1] <= Len(reqs) /\ id[2] <= Len(reqs[id[1]].calls)}
CallAt(id) == reqs[id[1]].calls[id[2]]
StartedBefore(a, b) == a[1] < b[1] \/ (a[1] = b[1] /\ a[2] < b[2])

\* C15: of two invocations with the same (sortBy, limit, chainType), the
\* second started less than ttl after the first, also while the first one's
\* fetch is still in flight, and neither failing, at most one makes an
\* upstream call and both return the same raw payload.
C15_OverlappingOneFetch ==
    \A a, b \in CallIds :
        (/\ StartedBefore(a, b)
         /\ CallAt(a).key = CallAt(b).key /\ CallAt(a).key # ""
         /\ CallAt(b).t0 - CallAt(a).t0 < DEFAULT_CACHE_TTL_MS
         /\ CallAt(a).pc # "failed" /\ CallAt(b).pc # "failed")
        => /\ CallAt(a).fetches + CallAt(b).fetches <= 1
           /\ (CallAt(a).pc = "ok" /\ CallAt(b).pc = "ok")
                 => CallAt(a).res = CallAt(b).res

-----------------------------------------------------------------------------
(* Properties of the entries' timestamps                                   *)

\* C16: when an invocation that missed stores the payload it fetched, the
\* timestamp of the entry is the time of that store, however long the
\* upstream took (so that the entry serves hits for ttl from the store on).
C16_StampedAtStore ==
    [][\A r \in 1..Len(reqs) : \A j \in 1..Len(reqs[r].calls) :
          Settles(r, j, "ok") =>
              /\ reqs[r].calls[j].key \in DOMAIN cache'
              /\ cache'[reqs[r].calls[j].key].data = reqs'[r].calls[j].res
              /\ cache'[reqs[r].calls[j].key].ts = now]_vars

-----------------------------------------------------------------------------
(* Properties of the cache key                                             *)

\* The (sortBy, limit, chainType) an invocation was made with.
TripleOf(id) ==
    <<CallAt(id).sortBy, reqs[id[1]].limit, reqs[id[1]].chainType>>

\* C17: invocations with different (sortBy, limit, chainType) have different
\* cache keys, also when sortBy or chainType contain ':', and the payload a
\* hit returns was fetched by an invocation with the same triple.
C17_KeyInjective ==
    /\ \A a, b \in CallIds :
          (TripleOf(a) # TripleOf(b) /\ CallAt(a).key # "" /\ CallAt(b).key # "")
              => CallAt(a).key # CallAt(b).key
    /\ \A b \in CallIds :
          CallAt(b).hit =>
              \E a \in CallIds :
                  /\ StartedBefore(a, b)
                  /\ TripleOf(a) = TripleOf(b)
                  /\ CallAt(a).pc = "ok" /\ ~CallAt(a).hit
                  /\ CallAt(a).res = CallAt(b).res

-----------------------------------------------------------------------------
(* Properties of racing writers                                            *)

\* C18: every overwrite of an entry leaves its timestamp greater than or
\* equal to the one it had; an invocation that started earlier and finished
\* later does not replace a newer entry by one with an older timestamp.
C18_TimestampsMonotone ==
    [][\A k \in DOMAIN cache :
          k \in DOMAIN cache' /\ cache'[k].ts >= cache[k].ts]_vars

-----------------------------------------------------------------------------
(* Frame properties of reads                                               *)

\* C19: receiving a request, whichever of its invocations are served from
\* the cache and whatever is normalized to answer it, leaves every entry of
\* the cache as it was, payload and timestamp; an invocation is a hit exactly
\* when the entry of its key is less than ttl older than its timestamp,
\* however many hits the entry has served; and the cache changes only by the
\* store of an invocation that fetched, at that invocation's key, to the raw
\* payload.
C19_HitLeavesCache ==
    [][/\ Received =>
            /\ cache' = cache
            /\ \A i \in 1..Len(NewReq.calls) :
                 LET c == NewReq.calls[i]
                     e == cacheGet(cache, c.key)
                 IN (c.key # "" /\ e # NoEntry) =>
                        (c.hit <=> now - e.ts < e.ttlMs)
       /\ cache' # cache =>
            \E r \in 1..Len(reqs) : \E j \in 1..Len(reqs[r].calls) :
                /\ Settles(r, j, "ok")
                /\ cache'[reqs[r].calls[j].key].data = reqs'[r].calls[j].res
                /\ \A k \in DOMAIN cache :
                      k # reqs[r].calls[j].key => cache'[k] = cache[k]]_vars

\* Witness of C19: an entry stamped 0 served a hit at 15000, was answered
\* normalized, and at 30000 is still stamped 0, hence expired.
C19_Witness ==
    \E r1, r2 \in 1..Len(reqs) :
        /\ r1 < r2 /\ variant = "B"
        /\ reqs[r1].calls # <<>> /\ reqs[r2].kind = "single" /\ reqs[r2].calls # <<>>
        /\ reqs[r1].calls[1].pc = "ok" /\ ~reqs[r1].calls[1].hit
        /\ reqs[r1].calls[1].t0 = 0
        /\ reqs[r2].calls[1].hit /\ reqs[r2].calls[1].t0 = TickMs
        /\ reqs[r2].calls[1].key = reqs[r1].calls[1].key
        /\ reqs[r2].calls[1].res = PayloadEnvelope
        /\ reqs[r2].resp.items = JArr(<<ObjA1, ObjA2>>)
        /\ cache[reqs[r1].calls[1].key] = EntryOf(reqs[r1].calls[1])
        /\ now - cache[reqs[r1].calls[1].key].ts >= DEFAULT_CACHE_TTL_MS

-----------------------------------------------------------------------------
(* Properties of findLargestObjectArray                                    *)

Searched == largest # JUndefined

\* The sequences of objects at nesting depth depth..maxDepth below node, in
\* the order a pre-order traversal meets them.
RECURSIVE RefSeqsOfObjects(_, _, _)
RefSeqsOfObjects(node, depth, maxDepth) ==
    IF depth > maxDepth THEN <<>>
    ELSE IF node.t = "arr" THEN
        (IF IsSeqOfObjects(node) THEN <<node>> ELSE <<>>)
        \o RefFlatten([i \in 1..Len(node.v) |->
                          RefSeqsOfObjects(node.v[i], depth + 1, maxDepth)])
    ELSE IF node.t = "obj" THEN
        RefFlatten([i \in 1..Len(node.v) |->
                      RefSeqsOfObjects(RefValues(node)[i], depth + 1, maxDepth)])
    ELSE <<>>

=============================================================================
